---- MODULE Spec2Model ----
(***************************************************************************)
(* Arcade Physics Group (src/src/physics/arcade/PhysicsGroup.js).          *)
(*                                                                         *)
(* The group normalises its constructor arguments into the (children,      *)
(* config) pair it hands to the base Group, builds its defaults table from *)
(* the config, gives every added Game Object a dynamic body through the    *)
(* creation hook, disables the body through the removal hook, and sets the *)
(* velocity of all members in bulk.                                        *)
(***************************************************************************)
EXTENDS Integers, Sequences, FiniteSets, TLC

VARIABLES
    phase,          \* "new" before the constructor has run, "built" after
    argChildren,    \* the constructor's `children` argument, as supplied
    argConfig,      \* the constructor's `config` argument, as supplied
    records,        \* the caller's `children` array after the constructor
    groupChildren,  \* the `children` handed to Group.call (line 159)
    groupConfig,    \* the `config` handed to Group.call (line 159)
    defaults,       \* this.defaults
    members,        \* the group's children, in getChildren() order
    body,           \* child.body of every Game Object
    op,             \* the last operation and what it met
    worldCalls,     \* the calls the last operation made on this.world
    setterCalls     \* the calls the last operation made on a body's setters

vars == <<phase, argChildren, argConfig, records, groupChildren, groupConfig,
          defaults, members, body, op, worldCalls, setterCalls>>

(***************************************************************************)
(* Bounds of the model.                                                    *)
(***************************************************************************)
NumEntities == 2    \* Game Objects that exist
MaxRecords == 2     \* longest array of config records given to the constructor

Entities == 1 .. NumEntities

(***************************************************************************)
(* JavaScript values, tagged by type.                                      *)
(***************************************************************************)
Undefined == [t |-> "undefined"]
Null == [t |-> "null"]
Num(n) == [t |-> "number", n |-> n]
Bool(b) == [t |-> "boolean", b |-> b]
Fn(name) == [t |-> "function", name |-> name]
Obj(o) == [t |-> "object", o |-> o]
\* A plain object held in an array: elements with the same id are one object.
RecObj(id, o) == [t |-> "object", id |-> id, o |-> o]
Arr(a) == [t |-> "array", a |-> a]
GameObject(e) == [t |-> "gameobject", id |-> e]

\* JavaScript truthiness of the values an argument can take here.
Truthy(v) ==
    CASE v.t = "undefined" -> FALSE
      [] v.t = "null" -> FALSE
      [] v.t = "boolean" -> v.b
      [] v.t = "number" -> v.n # 0
      [] OTHER -> TRUE

IsPlainObject(v) == v.t = "object"

IsArray(v) == v.t = "array"

\* An object is a function from its own property names to values.
EmptyObject == [k \in {} |-> Undefined]

SetProp(o, key, val) == [k \in (DOMAIN o) \cup {key} |-> IF k = key THEN val ELSE o[k]]

GetFastValue(source, key, defaultValue) ==
    IF key \in DOMAIN source /\ source[key] # Undefined
    THEN source[key]
    ELSE defaultValue

createCallbackHandlerRef == Fn("createCallbackHandler")
removeCallbackHandlerRef == Fn("removeCallbackHandler")
ArcadeSprite == Fn("ArcadeSprite")
DYNAMIC_BODY == "DYNAMIC_BODY"

(***************************************************************************)
(* The defaults table, in declaration order: <<setter, config field>>.     *)
(***************************************************************************)
DefaultsTable ==
    << <<"setCollideWorldBounds", "collideWorldBounds">>,
       <<"setBoundsRectangle", "customBoundsRectangle">>,
       <<"setAccelerationX", "accelerationX">>,
       <<"setAccelerationY", "accelerationY">>,
       <<"setAllowDrag", "allowDrag">>,
       <<"setAllowGravity", "allowGravity">>,
       <<"setAllowRotation", "allowRotation">>,
       <<"setBounceX", "bounceX">>,
       <<"setBounceY", "bounceY">>,
       <<"setDragX", "dragX">>,
       <<"setDragY", "dragY">>,
       <<"setEnable", "enable">>,
       <<"setGravityX", "gravityX">>,
       <<"setGravityY", "gravityY">>,
       <<"setFrictionX", "frictionX">>,
       <<"setFrictionY", "frictionY">>,
       <<"setMaxVelocityX", "maxVelocityX">>,
       <<"setMaxVelocityY", "maxVelocityY">>,
       <<"setVelocityX", "velocityX">>,
       <<"setVelocityY", "velocityY">>,
       <<"setAngularVelocity", "angularVelocity">>,
       <<"setAngularAcceleration", "angularAcceleration">>,
       <<"setAngularDrag", "angularDrag">>,
       <<"setMass", "mass">>,
       <<"setImmovable", "immovable">> >>

SetterNames == {DefaultsTable[i][1] : i \in DOMAIN DefaultsTable}

FieldOf(setter) ==
    (CHOOSE i \in DOMAIN DefaultsTable : DefaultsTable[i][1] = setter)

BuildDefaults(config) ==
    [s \in SetterNames |-> GetFastValue(config, DefaultsTable[FieldOf(s)][2], Undefined)]

(***************************************************************************)
(* The constructor, up to the call of the base Group: the children and the *)
(* config handed on, the defaults table, and the caller's array of records *)
(* as the constructor leaves it.                                           *)
(***************************************************************************)
\* (mutant) the hooks are injected only where the caller supplied none.
WithHooksKeepCallers(o) ==
    SetProp(SetProp(o, "internalCreateCallback",
                    GetFastValue(o, "internalCreateCallback", createCallbackHandlerRef)),
            "internalRemoveCallback",
            GetFastValue(o, "internalRemoveCallback", removeCallbackHandlerRef))

WithHooks(o) ==
    SetProp(SetProp(o, "internalCreateCallback", createCallbackHandlerRef),
            "internalRemoveCallback", removeCallbackHandlerRef)

WithClassType(o) == SetProp(o, "classType", GetFastValue(o, "classType", ArcadeSprite))

\* (mutant) an array of config records resolves to its last record.
NormalizedConfigLastRecord(children, config) ==
    IF ~Truthy(children) /\ ~Truthy(config)
    THEN WithHooks(EmptyObject)
    ELSE IF IsPlainObject(children)
    THEN WithHooks(children.o)
    ELSE IF IsArray(children) /\ Len(children.a) > 0 /\ IsPlainObject(children.a[1])
    THEN WithHooks(children.a[Len(children.a)].o)
    ELSE WithHooks(EmptyObject)

NormalizedConfig(children, config) ==
    IF ~Truthy(children) /\ ~Truthy(config)
    THEN WithHooks(EmptyObject)
    ELSE IF IsPlainObject(children)
    THEN WithHooks(children.o)
    ELSE IF IsArray(children) /\ Len(children.a) > 0 /\ IsPlainObject(children.a[1])
    THEN WithHooks(children.a[1].o)
    ELSE WithHooks(EmptyObject)

NormalizedChildren(children, config) ==
    IF ~Truthy(children) /\ ~Truthy(config)
    THEN children
    ELSE IF IsPlainObject(children)
    THEN Null
    ELSE IF IsArray(children) /\ Len(children.a) > 0 /\ IsPlainObject(children.a[1])
    THEN Null
    ELSE children

\* The caller's array of config records after the forEach of lines 74-78.
\* Its first record is the object that becomes `config`, so that object also
\* receives the classType of line 110, at every position of the array where
\* it stands.
RecordsAfter(children, config) ==
    IF Truthy(children) /\ IsArray(children) /\ Len(children.a) > 0
       /\ IsPlainObject(children.a[1])
    THEN [i \in DOMAIN children.a |->
            IF children.a[i].id = children.a[1].id
            THEN WithClassType(WithHooks(children.a[i].o))
            ELSE WithHooks(children.a[i].o)]
    ELSE <<>>

PhysicsGroup(children, config) ==
    LET cfg == WithClassType(NormalizedConfig(children, config))
    IN  [children |-> NormalizedChildren(children, config),
         config |-> cfg,
         defaults |-> BuildDefaults(cfg),
         records |-> RecordsAfter(children, config)]

(***************************************************************************)
(* The Body and the World, as far as the group uses them.  A body keeps    *)
(* the value each setter last wrote; setVelocityX and setVelocityY write   *)
(* the components of body.velocity, which the bulk setters write too.      *)
(***************************************************************************)
Initial == [t |-> "initial"]

PropSetters == SetterNames \ {"setVelocityX", "setVelocityY"}

NewBody ==
    [t |-> "body",
     props |-> [s \in PropSetters |-> Initial],
     velocity |-> [x |-> Num(0), y |-> Num(0)]]

CallSetter(b, key, val) ==
    IF key = "setVelocityX" THEN [b EXCEPT !.velocity.x = val]
    ELSE IF key = "setVelocityY" THEN [b EXCEPT !.velocity.y = val]
    ELSE [b EXCEPT !.props[key] = val]

\* World.enableBody(child, DYNAMIC_BODY): the child carries a body afterwards.
enableBody(b) == IF Truthy(b) THEN b ELSE NewBody

\* World.disableBody(child): the body leaves the simulation; the child may
\* keep the reference to it or lose it.
disableBody(b) == {b, Null}

(***************************************************************************)
(* createCallbackHandler(child): the body of the child afterwards, and the *)
(* calls made on the world and on the body, in order.                      *)
(***************************************************************************)
RECURSIVE ApplyDefaults(_, _, _)

\* (mutant) a default is applied only when its value is truthy.
ApplyDefaultsTruthy(b, dflts, i) ==
    IF i > Len(DefaultsTable) THEN [body |-> b, setters |-> <<>>]
    ELSE LET key == DefaultsTable[i][1]
             val == dflts[key]
         IN  IF Truthy(val)
             THEN LET rest == ApplyDefaults(CallSetter(b, key, val), dflts, i + 1)
                  IN  [body |-> rest.body, setters |-> <<>> \o << <<key, val>> >> \o rest.setters]
             ELSE ApplyDefaults(b, dflts, i + 1)

ApplyDefaults(b, dflts, i) ==
    IF i > Len(DefaultsTable) THEN [body |-> b, setters |-> <<>>]
    ELSE LET key == DefaultsTable[i][1]
             val == dflts[key]
         IN  IF val # Undefined
             THEN LET rest == ApplyDefaults(CallSetter(b, key, val), dflts, i + 1)
                  IN  [body |-> rest.body, setters |-> <<>> \o << <<key, val>> >> \o rest.setters]
             ELSE ApplyDefaults(b, dflts, i + 1)

\* (mutant) the world is asked for a body whether or not the child has one.
createCallbackHandlerAlwaysEnable(child, b, dflts) ==
    LET applied == ApplyDefaults(enableBody(b), dflts, 1)
    IN  [body |-> applied.body,
         world |-> << <<"enableBody", child, DYNAMIC_BODY>> >>,
         setters |-> applied.setters]

\* (mutant) every call attaches a new body in place of the one the child has.
createCallbackHandlerNewBody(child, b, dflts) ==
    LET applied == ApplyDefaults(NewBody, dflts, 1)
    IN  [body |-> applied.body,
         world |-> << <<"enableBody", child, DYNAMIC_BODY>> >>,
         setters |-> applied.setters]

\* (mutant) a child without a body is left without one.
createCallbackHandlerNoAttach(child, b, dflts) ==
    IF ~Truthy(b) THEN [body |-> b, world |-> <<>>, setters |-> <<>>]
    ELSE LET applied == ApplyDefaults(b, dflts, 1)
         IN  [body |-> applied.body, world |-> <<>>, setters |-> applied.setters]

createCallbackHandler(child, b, dflts) ==
    LET attach == ~Truthy(b)
        applied == ApplyDefaults(IF attach THEN enableBody(b) ELSE b, dflts, 1)
    IN  [body |-> applied.body,
         world |-> IF attach THEN << <<"enableBody", child, DYNAMIC_BODY>> >> ELSE <<>>,
         setters |-> applied.setters]

\* (mutant) the world is asked to disable the body whether or not there is one.
removeCallbackHandlerAlways(child, b) == << <<"disableBody", child>> >>

\* removeCallbackHandler(child): the calls made on the world.
removeCallbackHandler(child, b) ==
    IF Truthy(b) THEN << <<"disableBody", child>> >> ELSE <<>>

(***************************************************************************)
(* The base Group, as far as the physics group relies on it: it keeps the  *)
(* two hooks of the config it is given and calls them when a child is      *)
(* added or removed.                                                       *)
(***************************************************************************)
GroupCreateHook == GetFastValue(groupConfig, "internalCreateCallback", Null)
GroupRemoveHook == GetFastValue(groupConfig, "internalRemoveCallback", Null)

Contains(seq, e) == \E i \in DOMAIN seq : seq[i] = e

Without(seq, e) == SelectSeq(seq, LAMBDA m : m # e)

\* The internal creation hook, called by the Group on one child.
FireCreate(hook, child, b, dflts) ==
    IF hook = createCallbackHandlerRef
    THEN createCallbackHandler(child, b, dflts)
    ELSE [body |-> b, world |-> <<>>, setters |-> <<>>]

\* The children given to the Group's constructor, added one after the other.
RECURSIVE AddMultiple(_, _, _, _, _)
AddMultiple(hook, kids, i, bodies, dflts) ==
    IF i > Len(kids) THEN [body |-> bodies, world |-> <<>>, setters |-> <<>>]
    ELSE LET e == kids[i].id
             r == FireCreate(hook, e, bodies[e], dflts)
             rest == AddMultiple(hook, kids, i + 1, [bodies EXCEPT ![e] = r.body], dflts)
         IN  [body |-> rest.body,
              world |-> r.world \o rest.world,
              setters |-> r.setters \o rest.setters]

(***************************************************************************)
(* Inputs.                                                                 *)
(***************************************************************************)
NoOp == [name |-> "none", child |-> 0, hadBody |-> FALSE, x |-> Undefined,
         y |-> Undefined, step |-> Undefined, fault |-> 0, again |-> FALSE]

\* The values a caller may give each config field (none: the field is absent).
FieldChoices ==
    [collideWorldBounds |-> {Bool(FALSE)},
     velocityX |-> {Num(0), Num(1)},
     immovable |-> {Bool(TRUE)},
     internalCreateCallback |-> {Fn("userCreateCallback")},
     internalRemoveCallback |-> {Fn("userRemoveCallback")},
     classType |-> {Fn("CustomSprite")}]

ConfigsOver(fields) ==
    UNION {{o \in [S -> UNION {FieldChoices[f] : f \in S}] :
                \A f \in S : o[f] \in FieldChoices[f]} : S \in SUBSET fields}

\* Config records given alone, as `children` or as `config`.
ConfigPool ==
    ConfigsOver({"collideWorldBounds", "velocityX"})
    \cup {[internalCreateCallback |-> Fn("userCreateCallback"),
           internalRemoveCallback |-> Fn("userRemoveCallback"),
           immovable |-> Bool(TRUE)],
          [classType |-> Fn("CustomSprite"), velocityX |-> Undefined]}

\* Config records given in an array.
RecordPool ==
    {[velocityX |-> Num(1)],
     [immovable |-> Bool(TRUE), internalCreateCallback |-> Fn("userCreateCallback")],
     [collideWorldBounds |-> Bool(FALSE), classType |-> Fn("CustomSprite")]}

SeqsUpTo(S, n) == UNION {[1 .. k -> S] : k \in 0 .. n}

EntityArrays ==
    {a \in SeqsUpTo(Entities, NumEntities) :
        \A i, j \in DOMAIN a : i # j => a[i] # a[j]}

EntityArrayArgs == {Arr([i \in DOMAIN a |-> GameObject(a[i])]) : a \in EntityArrays}

\* Arrays of config records: position i holds the object ids[i], and the
\* objects' contents come from the pool; an object may stand at several
\* positions.
RecordArrayArgs ==
    UNION {{Arr([i \in 1 .. n |-> RecObj(ids[i], heap[ids[i]])]) :
                ids \in {f \in [1 .. n -> 1 .. n] : \A i \in 1 .. n : f[i] <= i},
                heap \in [1 .. n -> RecordPool]} :
            n \in 1 .. MaxRecords}

ChildrenArgs ==
    {Undefined}
    \cup {Obj(o) : o \in ConfigPool}
    \cup EntityArrayArgs
    \cup RecordArrayArgs

ConfigArgs ==
    {Undefined, Obj([velocityX |-> Num(0)]),
     Obj([collideWorldBounds |-> Bool(FALSE), immovable |-> Bool(TRUE)])}

\* The arguments of the groups on which the hooks are also called directly.
HookChildrenArgs ==
    {Undefined, Obj([collideWorldBounds |-> Bool(FALSE), velocityX |-> Num(1)])}
    \cup {c \in EntityArrayArgs : Len(c.a) = NumEntities}

\* The arguments of the groups whose members are given velocities.
VelChildrenArgs == {Undefined, Obj([velocityX |-> Num(0)])}

InitWith(childrenArgs, configArgs) ==
    /\ phase = "new"
    /\ argChildren \in childrenArgs
    /\ argConfig \in configArgs
    /\ records = <<>>
    /\ groupChildren = Undefined
    /\ groupConfig = EmptyObject
    /\ defaults = [s \in SetterNames |-> Undefined]
    /\ members = <<>>
    /\ body \in [Entities -> {Null, NewBody}]
    /\ op = NoOp
    /\ worldCalls = <<>>
    /\ setterCalls = <<>>

Init == InitWith(ChildrenArgs, ConfigArgs)

InitHook == InitWith(HookChildrenArgs, {Undefined})

InitVel == InitWith(VelChildrenArgs, {Undefined})

(***************************************************************************)
(* new PhysicsGroup(world, scene, children, config)                        *)
(***************************************************************************)
Construct ==
    /\ phase = "new"
    /\ LET g == PhysicsGroup(argChildren, argConfig)
           kids == IF IsArray(g.children) THEN g.children.a ELSE <<>>
           added == AddMultiple(GetFastValue(g.config, "internalCreateCallback", Null),
                                kids, 1, body, g.defaults)
       IN  /\ groupChildren' = g.children
           /\ groupConfig' = g.config
           /\ defaults' = g.defaults
           /\ records' = g.records
           /\ members' = [i \in DOMAIN kids |-> kids[i].id]
           /\ body' = added.body
           /\ worldCalls' = added.world
           /\ setterCalls' = added.setters
    /\ phase' = "built"
    /\ op' = [NoOp EXCEPT !.name = "new"]
    /\ UNCHANGED <<argChildren, argConfig>>

(***************************************************************************)
(* Group.add(child): the child joins the group and the creation hook runs. *)
(***************************************************************************)
Add(child) ==
    /\ phase = "built"
    /\ LET r == FireCreate(GroupCreateHook, child, body[child], defaults)
       IN  /\ body' = [body EXCEPT ![child] = r.body]
           /\ worldCalls' = r.world
           /\ setterCalls' = r.setters
    /\ members' = IF Contains(members, child) THEN members ELSE Append(members, child)
    /\ op' = [NoOp EXCEPT !.name = "add", !.child = child,
                          !.hadBody = Truthy(body[child]),
                          !.again = (op.name \in {"add", "createCallbackHandler"}
                                     /\ op.child = child)]
    /\ UNCHANGED <<phase, argChildren, argConfig, records, groupChildren,
                   groupConfig, defaults>>

(***************************************************************************)
(* Group.remove(child): a member leaves the group and the removal hook     *)
(* runs.                                                                   *)
(***************************************************************************)
Remove(child) ==
    /\ phase = "built"
    /\ Contains(members, child)
    /\ members' = Without(members, child)
    /\ LET calls == IF GroupRemoveHook = removeCallbackHandlerRef
                    THEN removeCallbackHandler(child, body[child])
                    ELSE <<>>
       IN  /\ worldCalls' = calls
           /\ IF calls = <<>>
              THEN body' = body
              ELSE \E b \in disableBody(body[child]) : body' = [body EXCEPT ![child] = b]
    /\ setterCalls' = <<>>
    /\ op' = [NoOp EXCEPT !.name = "remove", !.child = child,
                          !.hadBody = Truthy(body[child])]
    /\ UNCHANGED <<phase, argChildren, argConfig, records, groupChildren,
                   groupConfig, defaults>>

(***************************************************************************)
(* The bulk velocity setters.  Each walks getChildren() from index 0 and   *)
(* writes items[i].body.velocity; reading .velocity of a missing body      *)
(* throws, which ends the call where it stands.  The result is the bodies  *)
(* afterwards and the (1-based) position of the member that threw, 0 when  *)
(* the loop ran to its end.                                                *)
(***************************************************************************)
StepOrZero(step) == IF step = Undefined THEN Num(0) ELSE step

Plus(a, b) == Num(a.n + b.n)

Times(i, a) == Num(i * a.n)

\* (mutant) the step is added once, not once per position.
VelocityAtNoIndex(which, b, i, x, y, step) ==
    CASE which = "setVelocity" ->
            [b EXCEPT !.velocity = [x |-> Plus(x, step), y |-> Plus(y, step)]]
      [] which = "setVelocityX" -> [b EXCEPT !.velocity.x = Plus(x, step)]
      [] which = "setVelocityY" -> [b EXCEPT !.velocity.y = Plus(y, step)]

\* One pass of a loop body on items[i] (i counts from 0, as in the source).
VelocityAt(which, b, i, x, y, step) ==
    CASE which = "setVelocity" ->
            [b EXCEPT !.velocity = [x |-> Plus(x, Times(i, step)),
                                    y |-> Plus(y, Times(i, step))]]
      [] which = "setVelocityX" -> [b EXCEPT !.velocity.x = Plus(x, Times(i, step))]
      [] which = "setVelocityY" -> [b EXCEPT !.velocity.y = Plus(y, Times(i, step))]

RECURSIVE VelocityLoop(_, _, _, _, _, _, _)

\* (mutant) a member without a body is skipped.
VelocityLoopSkip(which, items, i, bodies, x, y, step) ==
    IF ~(i < Len(items)) THEN [body |-> bodies, fault |-> 0]
    ELSE LET e == items[i + 1]
         IN  IF ~Truthy(bodies[e])
             THEN VelocityLoop(which, items, i + 1, bodies, x, y, step)
             ELSE VelocityLoop(which, items, i + 1,
                               [bodies EXCEPT ![e] = VelocityAt(which, bodies[e], i, x, y, step)],
                               x, y, step)

VelocityLoop(which, items, i, bodies, x, y, step) ==
    IF ~(i < Len(items)) THEN [body |-> bodies, fault |-> 0]
    ELSE LET e == items[i + 1]
         IN  IF ~Truthy(bodies[e]) THEN [body |-> bodies, fault |-> i + 1]
             ELSE VelocityLoop(which, items, i + 1,
                               [bodies EXCEPT ![e] = VelocityAt(which, bodies[e], i, x, y, step)],
                               x, y, step)

setVelocity(items, bodies, x, y, step) ==
    VelocityLoop("setVelocity", items, 0, bodies, x, y, StepOrZero(step))

setVelocityX(items, bodies, value, step) ==
    VelocityLoop("setVelocityX", items, 0, bodies, value, Undefined, StepOrZero(step))

setVelocityY(items, bodies, value, step) ==
    VelocityLoop("setVelocityY", items, 0, bodies, Undefined, value, StepOrZero(step))

\* The base values and the steps a caller gives (Undefined: step omitted).
VelArgs == {Num(1), Num(2)}

StepArgs == {Undefined, Num(1)}

Bulk(name, r, x, y, step) ==
    /\ phase = "built"
    /\ body' = r.body
    /\ op' = [NoOp EXCEPT !.name = name, !.x = x, !.y = y, !.step = step,
                          !.fault = r.fault]
    /\ worldCalls' = <<>>
    /\ setterCalls' = <<>>
    /\ UNCHANGED <<phase, argChildren, argConfig, records, groupChildren,
                   groupConfig, defaults, members>>

SetVelocity(x, y, step) ==
    Bulk("setVelocity", setVelocity(members, body, x, y, step), x, y, step)

SetVelocityX(value, step) ==
    Bulk("setVelocityX", setVelocityX(members, body, value, step), value, Undefined, step)

SetVelocityY(value, step) ==
    Bulk("setVelocityY", setVelocityY(members, body, value, step), Undefined, value, step)

(***************************************************************************)
(* The hooks called directly, and a body destroyed by its owner.           *)
(***************************************************************************)
CreateCallbackHandler(child) ==
    /\ phase = "built"
    /\ LET r == createCallbackHandler(child, body[child], defaults)
       IN  /\ body' = [body EXCEPT ![child] = r.body]
           /\ worldCalls' = r.world
           /\ setterCalls' = r.setters
    /\ op' = [NoOp EXCEPT !.name = "createCallbackHandler", !.child = child,
                          !.hadBody = Truthy(body[child]),
                          !.again = (op.name \in {"add", "createCallbackHandler"}
                                     /\ op.child = child)]
    /\ UNCHANGED <<phase, argChildren, argConfig, records, groupChildren,
                   groupConfig, defaults, members>>

RemoveCallbackHandler(child) ==
    /\ phase = "built"
    /\ worldCalls' = removeCallbackHandler(child, body[child])
    /\ IF worldCalls' = <<>>
       THEN body' = body
       ELSE \E b \in disableBody(body[child]) : body' = [body EXCEPT ![child] = b]
    /\ setterCalls' = <<>>
    /\ op' = [NoOp EXCEPT !.name = "removeCallbackHandler", !.child = child,
                          !.hadBody = Truthy(body[child])]
    /\ UNCHANGED <<phase, argChildren, argConfig, records, groupChildren,
                   groupConfig, defaults, members>>

\* Body.destroy(): the Game Object loses its body, whether or not it is in
\* the group.
DestroyBody(child) ==
    /\ phase = "built"
    /\ Truthy(body[child])
    /\ body' = [body EXCEPT ![child] = Null]
    /\ op' = [NoOp EXCEPT !.name = "destroyBody", !.child = child, !.hadBody = TRUE]
    /\ worldCalls' = <<>>
    /\ setterCalls' = <<>>
    /\ UNCHANGED <<phase, argChildren, argConfig, records, groupChildren,
                   groupConfig, defaults, members>>

(***************************************************************************)
(* Specifications.                                                         *)
(* Spec: a group is built from any of the argument shapes; children are    *)
(* added and removed.                                                      *)
(* SpecHook: the hooks are also called directly, and a body may be         *)
(* destroyed behind the group's back.                                      *)
(* SpecVel: children are added, their velocities are set in bulk, and a    *)
(* body may be destroyed behind the group's back.                          *)
(***************************************************************************)
Next ==
    \/ Construct
    \/ \E child \in Entities : Add(child)
    \/ \E child \in Entities : Remove(child)

Spec == Init /\ [][Next]_vars

NextHook ==
    \/ Construct
    \/ \E child \in Entities : Add(child)
    \/ \E child \in Entities : Remove(child)
    \/ \E child \in Entities : CreateCallbackHandler(child)
    \/ \E child \in Entities : RemoveCallbackHandler(child)
    \/ \E child \in Entities : DestroyBody(child)

SpecHook == InitHook /\ [][NextHook]_vars

NextVel ==
    \/ Construct
    \/ \E child \in Entities : Add(child)
    \/ \E x, y \in VelArgs, step \in StepArgs : SetVelocity(x, y, step)
    \/ \E value \in VelArgs, step \in StepArgs : SetVelocityX(value, step)
    \/ \E value \in VelArgs, step \in StepArgs : SetVelocityY(value, step)
    \/ \E child \in Entities : DestroyBody(child)

SpecVel == InitVel /\ [][NextVel]_vars

(***************************************************************************)
(* Properties.                                                             *)
(***************************************************************************)
Built == phase = "built"

HasOwn(o, key) == key \in DOMAIN o

EnableCall(e) == <<"enableBody", e, DYNAMIC_BODY>>

DisableCall(e) == <<"disableBody", e>>

Count(calls, c) == Cardinality({i \in DOMAIN calls : calls[i] = c})

IsEnable(c) == c[1] = "enableBody"

\* The setters in the order the specification enumerates them.
DeclaredOrder ==
    <<"setCollideWorldBounds", "setBoundsRectangle", "setAccelerationX",
      "setAccelerationY", "setAllowDrag", "setAllowGravity", "setAllowRotation",
      "setBounceX", "setBounceY", "setDragX", "setDragY", "setEnable",
      "setGravityX", "setGravityY", "setFrictionX", "setFrictionY",
      "setMaxVelocityX", "setMaxVelocityY", "setVelocityX", "setVelocityY",
      "setAngularVelocity", "setAngularAcceleration", "setAngularDrag",
      "setMass", "setImmovable">>

\* The config field each setter's default is read from.
DeclaredField ==
    [setCollideWorldBounds |-> "collideWorldBounds",
     setBoundsRectangle |-> "customBoundsRectangle",
     setAccelerationX |-> "accelerationX", setAccelerationY |-> "accelerationY",
     setAllowDrag |-> "allowDrag", setAllowGravity |-> "allowGravity",
     setAllowRotation |-> "allowRotation", setBounceX |-> "bounceX",
     setBounceY |-> "bounceY", setDragX |-> "dragX", setDragY |-> "dragY",
     setEnable |-> "enable", setGravityX |-> "gravityX", setGravityY |-> "gravityY",
     setFrictionX |-> "frictionX", setFrictionY |-> "frictionY",
     setMaxVelocityX |-> "maxVelocityX", setMaxVelocityY |-> "maxVelocityY",
     setVelocityX |-> "velocityX", setVelocityY |-> "velocityY",
     setAngularVelocity |-> "angularVelocity",
     setAngularAcceleration |-> "angularAcceleration",
     setAngularDrag |-> "angularDrag", setMass |-> "mass",
     setImmovable |-> "immovable"]

\* The field of a record as a caller reads it: undefined when absent.
Field(o, key) == IF HasOwn(o, key) THEN o[key] ELSE Undefined

\* The calls <<setter, value>> for the defined entries of a defaults table.
DefinedEntries(dflts) ==
    SelectSeq([i \in DOMAIN DeclaredOrder |-> <<DeclaredOrder[i], dflts[DeclaredOrder[i]]>>],
              LAMBDA c : c[2] # Undefined)

HooksInjected(o) ==
    /\ HasOwn(o, "internalCreateCallback")
    /\ o["internalCreateCallback"] = createCallbackHandlerRef
    /\ HasOwn(o, "internalRemoveCallback")
    /\ o["internalRemoveCallback"] = removeCallbackHandlerRef

\* C1: whatever the shape of the constructor's arguments, the config handed
\* to the base Group carries createCallbackHandler and removeCallbackHandler
\* as its internal hooks, in place of any hooks the caller supplied; given
\* an array of config records, so does every record of the array.
C1_HooksAlwaysInjected ==
    Built => /\ HooksInjected(groupConfig)
             /\ \A i \in DOMAIN records : HooksInjected(records[i])
             /\ (IsArray(argChildren) /\ Len(argChildren.a) > 0
                    /\ IsPlainObject(argChildren.a[1]))
                => Len(records) = Len(argChildren.a)

\* A group built from an array of two config records whose second record
\* came with a hook of the caller's.
C1_Witness ==
    /\ Built
    /\ IsArray(argChildren)
    /\ Len(argChildren.a) = 2
    /\ IsPlainObject(argChildren.a[2])
    /\ HasOwn(argChildren.a[2].o, "internalCreateCallback")
    /\ argChildren.a[2].o["internalCreateCallback"] = Fn("userCreateCallback")

\* C2: when a config record is given as the fourth argument, every entry of
\* the defaults table is the value of the matching field of that record,
\* and unset when the field is absent.
C2_DefaultsFromConfigArgument ==
    (Built /\ IsPlainObject(argConfig)) =>
        \A s \in SetterNames : defaults[s] = Field(argConfig.o, DeclaredField[s])

\* C8: for a group built from an array of config records, the defaults table
\* holds the fields of the first record only, and the creation hook applies
\* nothing else to a member.
C8_FirstRecordOnly ==
    (Built /\ IsArray(argChildren) /\ Len(argChildren.a) > 0
        /\ IsPlainObject(argChildren.a[1])) =>
        LET first == argChildren.a[1].o
        IN  /\ \A s \in SetterNames : defaults[s] = Field(first, DeclaredField[s])
            /\ \A i \in DOMAIN setterCalls :
                   setterCalls[i][2] = Field(first, DeclaredField[setterCalls[i][1]])

\* A child was added to a group built from two records, the second of which
\* sets a velocity the first does not.
C8_Witness ==
    /\ Built
    /\ IsArray(argChildren)
    /\ Len(argChildren.a) = 2
    /\ IsPlainObject(argChildren.a[1])
    /\ ~HasOwn(argChildren.a[1].o, "velocityX")
    /\ HasOwn(argChildren.a[1].o, "immovable")
    /\ HasOwn(argChildren.a[2].o, "velocityX")
    /\ op.name = "add"
    /\ setterCalls = << <<"setImmovable", Bool(TRUE)>> >>

\* C3: the world is asked to attach a body (enableBody with the dynamic
\* kind) exactly once for a child that is added while it carries no body,
\* and never otherwise: not for a child added with a body, and not by any
\* other operation.
C3_OneAttachPerBodilessAddition ==
    [][ /\ \A e \in Entities :
              LET added == \/ op'.name = "add" /\ op'.child = e
                           \/ op'.name = "new" /\ Contains(members', e)
              IN  Count(worldCalls', EnableCall(e))
                    = IF added /\ ~Truthy(body[e]) THEN 1 ELSE 0
        /\ \A i \in DOMAIN worldCalls' :
              IsEnable(worldCalls'[i]) => \E e \in Entities : worldCalls'[i] = EnableCall(e)
      ]_vars

\* A child without a body was added after one with a body was.
C3_Witness ==
    /\ op.name = "add"
    /\ ~op.hadBody
    /\ worldCalls = <<EnableCall(op.child)>>
    /\ Len(members) = 2
    /\ members[2] = op.child

\* C4: every member of the group carries a body.
C4_MembersHaveBody ==
    \A i \in DOMAIN members : Truthy(body[members[i]])

\* Every Game Object is a member, the last of them added without a body.
C4_Witness ==
    /\ op.name = "add"
    /\ ~op.hadBody
    /\ Len(members) = NumEntities
    /\ members[NumEntities] = op.child

\* C9: a child that is added gets exactly the defined entries of the
\* defaults table applied to its body, zero and false among them, each once
\* with its value and in the declared order; unset entries are not applied.
C9_DefinedDefaultsInOrder ==
    op.name = "add" => setterCalls = DefinedEntries(defaults)

\* A child was added to a group with two defaults, both falsy.
C9_Witness ==
    /\ op.name = "add"
    /\ setterCalls = << <<"setCollideWorldBounds", Bool(FALSE)>>,
                        <<"setVelocityX", Num(0)>> >>

\* C5: removing a member asks the world exactly once to detach its body
\* (disableBody) when the member carries one; when it carries none, the
\* world is not called and no body changes.
C5_OneDetachPerBodiedRemoval ==
    [][ op'.name = "remove" =>
            LET e == op'.child
            IN  IF Truthy(body[e])
                THEN worldCalls' = <<DisableCall(e)>>
                ELSE worldCalls' = <<>> /\ body' = body /\ setterCalls' = <<>>
      ]_vars

\* A member whose body had been destroyed was removed.
C5_Witness ==
    /\ op.name = "remove"
    /\ ~op.hadBody
    /\ worldCalls = <<>>

\* C6: the creation hook called again on a child that carries a body asks
\* the world for nothing, applies the defined defaults once more, and
\* leaves the body as the call before left it.
C6_CreateHookIdempotent ==
    [][ (op'.name = "createCallbackHandler" /\ op'.again /\ Truthy(body[op'.child])) =>
            /\ worldCalls' = <<>>
            /\ setterCalls' = DefinedEntries(defaults)
            /\ body'[op'.child] = body[op'.child]
      ]_vars

\* The hook ran a second time in a row on a child with a body, in a group
\* that has defaults to apply.
C6_Witness ==
    /\ op.name = "createCallbackHandler"
    /\ op.again
    /\ op.hadBody
    /\ Len(setterCalls) = 2

BulkNames == {"setVelocity", "setVelocityX", "setVelocityY"}

StepValue(step) == IF step = Undefined THEN 0 ELSE step.n

\* The velocity the call recorded in `o` gives the member at 0-based index i
\* whose velocity was `old`.
Stepped(o, i, old) ==
    CASE o.name = "setVelocity" ->
            [x |-> Num(o.x.n + i * StepValue(o.step)),
             y |-> Num(o.y.n + i * StepValue(o.step))]
      [] o.name = "setVelocityX" ->
            [x |-> Num(o.x.n + i * StepValue(o.step)), y |-> old.y]
      [] o.name = "setVelocityY" ->
            [x |-> old.x, y |-> Num(o.y.n + i * StepValue(o.step))]

\* The (1-based) position of the first member without a body, 0 if none.
FirstBodiless ==
    IF \E i \in DOMAIN members : ~Truthy(body[members[i]])
    THEN CHOOSE i \in DOMAIN members :
            /\ ~Truthy(body[members[i]])
            /\ \A j \in 1 .. i - 1 : Truthy(body[members[j]])
    ELSE 0

\* C7: when every member carries a body, a bulk setter gives the member at
\* index i the base value plus i times the step (0 when the step is
\* omitted) on the axes it sets, and leaves the other axis as it was.
C7_SteppedVelocity ==
    [][ (op'.name \in BulkNames /\ FirstBodiless = 0) =>
            /\ op'.fault = 0
            /\ members' = members
            /\ \A i \in DOMAIN members :
                  body'[members[i]].velocity
                    = Stepped(op', i - 1, body[members[i]].velocity)
      ]_vars

\* setVelocityX without a step ran on a full group whose last member moves
\* along Y.
C7_Witness ==
    /\ op.name = "setVelocityX"
    /\ op.step = Undefined
    /\ op.fault = 0
    /\ Len(members) = NumEntities
    /\ \A i \in DOMAIN members : Truthy(body[members[i]])
    /\ body[members[NumEntities]].velocity.y # Num(0)
    /\ body[members[NumEntities]].velocity.x = op.x

\* C10: a bulk setter that meets a member without a body faults there; the
\* members before it have their new velocity, that member and the ones
\* after it are as they were.
C10_BulkSetterNotAtomic ==
    [][ (op'.name \in BulkNames /\ FirstBodiless # 0) =>
            /\ op'.fault = FirstBodiless
            /\ \A i \in DOMAIN members :
                  IF i < FirstBodiless
                  THEN body'[members[i]].velocity
                         = Stepped(op', i - 1, body[members[i]].velocity)
                  ELSE body'[members[i]] = body[members[i]]
      ]_vars

\* setVelocity faulted at the second member after changing the first.
C10_Witness ==
    /\ op.name = "setVelocity"
    /\ op.fault = 2
    /\ body[members[1]].velocity = [x |-> op.x, y |-> op.y]
    /\ ~Truthy(body[members[2]])

====
